---------------------------- MODULE Spec2Model ----------------------------
(***************************************************************************)
(* The S-expression subsystem of src/src/new-sexpr.rs: the Value tree, the *)
(* stack-based Builder with its error latch, and the character scanner     *)
(* parse / parse_word that drives the Builder.                             *)
(*                                                                         *)
(* Two specifications share the Builder operators:                         *)
(*   Spec       a client calls open / close / s / b / n / value on a       *)
(*              Builder::new() in any order;                               *)
(*   ParseSpec  parse() scans a text one character at a time;              *)
(*   WordSpec   parse_word() classifies one token;                         *)
(*   EvalSpec   eval() reduces one Value tree.                             *)
(***************************************************************************)
EXTENDS Integers, Sequences, FiniteSets

(***************************************************************************)
(* Bounds of the model.                                                    *)
(***************************************************************************)
\* longest sequence of Builder calls a client makes under Spec
MaxOps == 6
\* longest text parse() scans under ParseSpec
MaxLen == 7
\* longest token parse_word() is given under WordSpec
MaxWord == 3
\* longest root array eval() is given under EvalSpec
MaxItems == 4

(***************************************************************************)
(* Value (new-sexpr.rs:4-9).  A String is a sequence of one-character      *)
(* strings, a Vec is a sequence.                                           *)
(***************************************************************************)
Number(x) == [t |-> "Number", n |-> x]
Str(s) == [t |-> "Str", s |-> s]
Bool(v) == [t |-> "Bool", b |-> v]
Arr(items) == [t |-> "Arr", a |-> items]

\* Option<String>::None of Builder.error
None == "None"

\* Result::Ok / Result::Err
Ok(v) == [ok |-> TRUE, val |-> v]
Err(msg) == [ok |-> FALSE, err |-> msg]

(***************************************************************************)
(* Builder (new-sexpr.rs:31-114).  Each method is an operator from the     *)
(* Builder before the call to the Builder after it.                        *)
(***************************************************************************)
new == [stack |-> <<>>, current |-> <<>>, error |-> None, open |-> FALSE]

\* mutant of push: the `if ! self.open` guard is missing
push_unguarded(b, v) ==
    IF b.error = None THEN [b EXCEPT !.current = Append(@, v)] ELSE b

push(b, v) ==
    LET b1 == IF ~b.open THEN [b EXCEPT !.error = "not open!"] ELSE b
    IN  IF b1.error = None THEN [b1 EXCEPT !.current = Append(@, v)] ELSE b1

s(b, str) == push(b, Str(str))

b(bd, v) == push(bd, Bool(v))

n(b0, v) == push(b0, Number(v))

\* mem::swap of arr with self.current: the Builder afterwards and the array
\* handed back
extract_current(b0, arr) ==
    [builder |-> [b0 EXCEPT !.current = arr], current |-> b0.current]

\* mutant of value: taking the root also forgets the levels that are open
value_resets(b0) ==
    IF b0.error = None
    THEN [builder |-> new, ret |-> Ok(Arr(b0.current))]
    ELSE [builder |-> b0, ret |-> Err(b0.error)]

\* mutant of value: levels still open at the end are an error
value_requires_closed(b0) ==
    IF b0.error = None
    THEN IF b0.open \/ b0.stack # <<>>
         THEN [builder |-> b0, ret |-> Err("missing close")]
         ELSE [builder |-> [b0 EXCEPT !.current = <<>>], ret |-> Ok(Arr(b0.current))]
    ELSE [builder |-> b0, ret |-> Err(b0.error)]

value(b0) ==
    IF b0.error = None
    THEN LET x == extract_current(b0, <<>>)
         IN  [builder |-> x.builder, ret |-> Ok(Arr(x.current))]
    ELSE [builder |-> b0, ret |-> Err(b0.error)]

\* mutant of open: the root-opening branch also forgets the latched error
open_clears_error(b0) ==
    IF ~b0.open THEN [b0 EXCEPT !.open = TRUE, !.error = None]
    ELSE IF b0.error # None THEN b0
    ELSE LET x == extract_current(b0, <<>>)
         IN  [x.builder EXCEPT !.stack = Append(@, x.current)]

\* mutant of open: the root '(' starts a nested level as every other '(' does
open_root_nests(b0) ==
    IF b0.error # None THEN [b0 EXCEPT !.open = TRUE]
    ELSE LET x == extract_current(b0, <<>>)
         IN  [x.builder EXCEPT !.stack = Append(@, x.current), !.open = TRUE]

\* mutant of open: a nested '(' empties current without saving it
open_drops_current(b0) ==
    IF ~b0.open THEN [b0 EXCEPT !.open = TRUE]
    ELSE IF b0.error # None THEN b0
    ELSE extract_current(b0, <<>>).builder

\* mutant of open: the `if self.error.is_some() { return self; }` is missing
open_ignores_latch(b0) ==
    IF ~b0.open THEN [b0 EXCEPT !.open = TRUE]
    ELSE LET x == extract_current(b0, <<>>)
         IN  [x.builder EXCEPT !.stack = Append(@, x.current)]

open(b0) ==
    IF ~b0.open THEN [b0 EXCEPT !.open = TRUE]
    ELSE IF b0.error # None THEN b0
    ELSE LET x == extract_current(b0, <<>>)
         IN  [x.builder EXCEPT !.stack = Append(@, x.current)]

\* mutant of close: a ')' with nothing open is ignored instead of latched
close_ignores_extra(b0) ==
    IF b0.stack # <<>>
    THEN LET last_current == b0.stack[Len(b0.stack)]
             popped == [b0 EXCEPT !.stack = SubSeq(@, 1, Len(@) - 1)]
             x == extract_current(popped, last_current)
         IN  [x.builder EXCEPT !.current = Append(@, Arr(x.current))]
    ELSE [b0 EXCEPT !.open = FALSE]

\* mutant of close: the finished array goes in front of the saved one
close_prepends(b0) ==
    IF b0.stack # <<>>
    THEN LET last_current == b0.stack[Len(b0.stack)]
             popped == [b0 EXCEPT !.stack = SubSeq(@, 1, Len(@) - 1)]
             x == extract_current(popped, last_current)
         IN  [x.builder EXCEPT !.current = <<Arr(x.current)>> \o @]
    ELSE IF b0.open THEN [b0 EXCEPT !.open = FALSE]
    ELSE [b0 EXCEPT !.error = "mismatched open/close"]

\* mutant of close: the ')' of the root leaves the open flag set
close_keeps_root_open(b0) ==
    IF b0.stack # <<>>
    THEN LET last_current == b0.stack[Len(b0.stack)]
             popped == [b0 EXCEPT !.stack = SubSeq(@, 1, Len(@) - 1)]
             x == extract_current(popped, last_current)
         IN  [x.builder EXCEPT !.current = Append(@, Arr(x.current))]
    ELSE IF b0.open THEN b0
    ELSE [b0 EXCEPT !.error = "mismatched open/close"]

close(b0) ==
    IF b0.stack # <<>>
    THEN LET last_current == b0.stack[Len(b0.stack)]
             popped == [b0 EXCEPT !.stack = SubSeq(@, 1, Len(@) - 1)]
             x == extract_current(popped, last_current)
         IN  [x.builder EXCEPT !.current = Append(@, Arr(x.current))]
    ELSE IF b0.open THEN [b0 EXCEPT !.open = FALSE]
    ELSE [b0 EXCEPT !.error = "mismatched open/close"]

(***************************************************************************)
(* Characters.  char::is_whitespace and char::is_digit(10) are modelled    *)
(* by membership; Alphabet is what the scanned texts are drawn from.       *)
(***************************************************************************)
Whitespace == {" "}
Digits == {"0", "1", "2", "3", "4", "5", "6", "7", "8", "9"}
Alphabet == {"(", ")", " ", "a", "1", "-"}
WordChars == Alphabet \ (Whitespace \cup {"(", ")"})

(***************************************************************************)
(* str::parse::<f64> as parse_word uses it (new-sexpr.rs:152).  The        *)
(* literal is [sign] digits* ['.' digits*] [('e'|'E') [sign] digits+] with *)
(* a digit in the mantissa; "inf", "infinity" and "nan" need letters the   *)
(* Alphabet does not have.  The value is computed for literals with        *)
(* neither fraction nor exponent, the only ones the Alphabet can spell.    *)
(***************************************************************************)
AllDigits(w) == \A i \in 1..Len(w) : w[i] \in Digits

FirstIndex(w, chars) ==
    IF \E i \in 1..Len(w) : w[i] \in chars
    THEN CHOOSE i \in 1..Len(w) :
            /\ w[i] \in chars
            /\ \A j \in 1..(i - 1) : w[j] \notin chars
    ELSE 0

StripSign(w) ==
    IF w # <<>> /\ w[1] \in {"+", "-"} THEN SubSeq(w, 2, Len(w)) ELSE w

\* digits* ['.' digits*] with a digit on one side at least
IsMantissa(mant, dot) ==
    IF dot = 0 THEN mant # <<>> /\ AllDigits(mant)
    ELSE /\ AllDigits(SubSeq(mant, 1, dot - 1))
         /\ AllDigits(SubSeq(mant, dot + 1, Len(mant)))
         /\ Len(mant) > 1

\* [sign] digits+
IsExponent(expo) == StripSign(expo) # <<>> /\ AllDigits(StripSign(expo))

IsDecimal(body, ePos) ==
    IF ePos = 0 THEN IsMantissa(body, FirstIndex(body, {"."}))
    ELSE /\ IsMantissa(SubSeq(body, 1, ePos - 1),
                       FirstIndex(SubSeq(body, 1, ePos - 1), {"."}))
         /\ IsExponent(SubSeq(body, ePos + 1, Len(body)))

IsFloatLiteral(w) == IsDecimal(StripSign(w), FirstIndex(StripSign(w), {"e", "E"}))

DigitValue(ch) == CHOOSE d \in 0..9 : <<"0", "1", "2", "3", "4", "5", "6", "7", "8", "9">>[d + 1] = ch

RECURSIVE DigitsValue(_)
DigitsValue(w) ==
    IF w = <<>> THEN 0
    ELSE 10 * DigitsValue(SubSeq(w, 1, Len(w) - 1)) + DigitValue(w[Len(w)])

parse_f64(w) ==
    IF IsFloatLiteral(w)
    THEN Ok(IF w[1] = "-" THEN 0 - DigitsValue(StripSign(w))
            ELSE DigitsValue(StripSign(w)))
    ELSE Err("invalid float literal")

(***************************************************************************)
(* parse_word (new-sexpr.rs:145-160): the Builder afterwards and the error *)
(* returned (None for Ok(())).  On an empty word `unwrap()` panics.        *)
(***************************************************************************)
Panic == "panic: unwrap on None"

\* `match word.parse::<f64>()` on the outcome r
number_word(b0, r) ==
    IF r.ok THEN [builder |-> n(b0, r.val), err |-> None]
    ELSE [builder |-> b0, err |-> r.err]

\* mutant of parse_word: every word that starts with T or F is a boolean
parse_word_by_initial(b0, w) ==
    IF w = <<>> THEN [builder |-> b0, err |-> Panic]
    ELSE IF w[1] = "T" \/ w[1] = "F"
         THEN [builder |-> b(b0, w[1] = "T"), err |-> None]
         ELSE IF w[1] \in Digits \/ w[1] = "-"
         THEN number_word(b0, parse_f64(w))
         ELSE [builder |-> s(b0, w), err |-> None]

\* mutant of parse_word: a '-' on its own is a symbol, not a number
parse_word_minus_symbol(b0, w) ==
    IF w = <<>> THEN [builder |-> b0, err |-> Panic]
    ELSE IF w = <<"T">> \/ w = <<"F">>
         THEN [builder |-> b(b0, w = <<"T">>), err |-> None]
         ELSE IF (w[1] \in Digits \/ w[1] = "-") /\ w # <<"-">>
         THEN number_word(b0, parse_f64(w))
         ELSE [builder |-> s(b0, w), err |-> None]

parse_word(b0, w) ==
    IF w = <<>> THEN [builder |-> b0, err |-> Panic]
    ELSE IF w = <<"T">> \/ w = <<"F">>
         THEN [builder |-> b(b0, w = <<"T">>), err |-> None]
         ELSE IF w[1] \in Digits \/ w[1] = "-"
         THEN number_word(b0, parse_f64(w))
         ELSE [builder |-> s(b0, w), err |-> None]

(***************************************************************************)
(* parse (new-sexpr.rs:117-141).  A scanner state is the Builder, the word *)
(* buffer and the error of an early `?` return (None while the loop runs). *)
(***************************************************************************)
\* mutant of flushed: a failed parse_word is latched in the Builder and the
\* scan goes on, instead of `?` returning
flushed_latches(ps, r) ==
    IF r.err = None
    THEN [ps EXCEPT !.builder = r.builder, !.word = <<>>]
    ELSE [ps EXCEPT !.builder = [r.builder EXCEPT !.error = r.err], !.word = <<>>]

\* `parse_word(&mut builder, &word)?; word.clear();` on parse_word's outcome r
flushed(ps, r) ==
    IF r.err = None
    THEN [ps EXCEPT !.builder = r.builder, !.word = <<>>]
    ELSE [ps EXCEPT !.builder = r.builder, !.err = r.err]

\* mutant of flush_word: the `if word.len() > 0` test is missing
flush_word_unguarded(ps) ==
    flushed(ps, parse_word(ps.builder, ps.word))

\* the flush the whitespace and the ')' branches share
flush_word(ps) ==
    IF Len(ps.word) > 0 THEN flushed(ps, parse_word(ps.builder, ps.word))
    ELSE ps

\* `builder.close()` of the ')' branch, not reached when the flush returned
close_after(f) == IF f.err = None THEN [f EXCEPT !.builder = close(@)] ELSE f

\* one turn of `for ch in text.chars()`
scan_char(ps, ch) ==
    IF ch \in Whitespace THEN flush_word(ps)
    ELSE IF ch = "(" THEN [ps EXCEPT !.builder = open(@)]
    ELSE IF ch = ")" THEN close_after(flush_word(ps))
    ELSE [ps EXCEPT !.word = Append(@, ch)]

\* the loop over txt[i..], left at the first `?` that returns
RECURSIVE scan_from(_, _, _)
scan_from(ps, txt, i) ==
    IF i > Len(txt) \/ ps.err # None THEN ps
    ELSE scan_from(scan_char(ps, txt[i]), txt, i + 1)

\* after the loop: the early return's error, or `builder.value()`
parse_result(ps) ==
    IF ps.err # None THEN Err(ps.err) ELSE value(ps.builder).ret

parse(txt) ==
    parse_result(scan_from([builder |-> new, word |-> <<>>, err |-> None], txt, 1))

(***************************************************************************)
(* f64 arithmetic as eval uses it (new-sexpr.rs:240-257).  An f64 is its   *)
(* class (finite, infinite, NaN), its sign bit, and for a finite value its *)
(* magnitude num/den in lowest terms, so that -0.0, the infinities and NaN *)
(* behave as IEEE 754 says.  Rounding is not modelled: the trees of        *)
(* EvalSpec only produce values an f64 holds exactly.                      *)
(***************************************************************************)
RECURSIVE GCD(_, _)
GCD(p, q) == IF q = 0 THEN p ELSE GCD(q, p % q)

Finite(neg, num, den) == [cls |-> "fin", neg |-> neg, num |-> num, den |-> den]
Infinity(neg) == [cls |-> "inf", neg |-> neg, num |-> 0, den |-> 0]
NaN == [cls |-> "nan", neg |-> FALSE, num |-> 0, den |-> 0]

\* the f64 of an integer literal
FromInt(k) == IF k < 0 THEN Finite(TRUE, 0 - k, 1) ELSE Finite(FALSE, k, 1)

IsZero(x) == x.cls = "fin" /\ x.num = 0

\* the finite f64 of magnitude num/den
Reduced(neg, num, den) == Finite(neg, num \div GCD(num, den), den \div GCD(num, den))

\* the finite f64 of signed numerator p over den; an exact zero sum is -0.0
\* only when both addends are negative
Signed(p, den, zeroNeg) ==
    IF p = 0 THEN Finite(zeroNeg, 0, 1)
    ELSE IF p < 0 THEN Reduced(TRUE, 0 - p, den)
    ELSE Reduced(FALSE, p, den)

SignedNum(x) == IF x.neg THEN 0 - x.num ELSE x.num

\* x + y
FAdd(x, y) ==
    IF x.cls = "nan" \/ y.cls = "nan" THEN NaN
    ELSE IF x.cls = "inf" /\ y.cls = "inf"
         THEN IF x.neg = y.neg THEN x ELSE NaN
    ELSE IF x.cls = "inf" THEN x
    ELSE IF y.cls = "inf" THEN y
    ELSE Signed(SignedNum(x) * y.den + SignedNum(y) * x.den, x.den * y.den,
                x.neg /\ y.neg)

FNeg(x) == IF x.cls = "nan" THEN NaN ELSE [x EXCEPT !.neg = ~x.neg]

\* x - y
FSub(x, y) == FAdd(x, FNeg(y))

\* x * y
FMul(x, y) ==
    IF x.cls = "nan" \/ y.cls = "nan" THEN NaN
    ELSE IF x.cls = "inf" \/ y.cls = "inf"
         THEN IF IsZero(x) \/ IsZero(y) THEN NaN ELSE Infinity(x.neg # y.neg)
    ELSE Reduced(x.neg # y.neg, x.num * y.num, x.den * y.den)

\* x / y
FDiv(x, y) ==
    IF x.cls = "nan" \/ y.cls = "nan" THEN NaN
    ELSE IF x.cls = "inf"
         THEN IF y.cls = "inf" THEN NaN ELSE Infinity(x.neg # y.neg)
    ELSE IF y.cls = "inf" THEN Finite(x.neg # y.neg, 0, 1)
    ELSE IF IsZero(y)
         THEN IF IsZero(x) THEN NaN ELSE Infinity(x.neg # y.neg)
    ELSE Reduced(x.neg # y.neg, x.num * y.den, x.den * y.num)

(***************************************************************************)
(* eval (new-sexpr.rs:234-271).  An evaluation is the Result it returns    *)
(* and the log of the calls of eval it made, each call named by the path   *)
(* of its argument from the root (the indices are those of the source, so  *)
(* arr[0] is the operator).  A SexprError is its message text and the      *)
(* value the message shows with {:?}.                                      *)
(***************************************************************************)
SexprError(msg, shown) == [details |-> msg, shown |-> shown]

Evaluated(res, log) == [res |-> res, log |-> log]

RECURSIVE eval_at(_, _)
RECURSIVE fold(_, _, _, _, _, _)

\* mutant of start: the product starts from 0.0 as the sum does
start_zero(adding) ==
    FromInt(0)

\* `let mut res = if adding {0.0} else {1.0}`
start(adding) ==
    IF adding THEN FromInt(0) ELSE FromInt(1)

\* `res = if adding { res + num } else { res * num }`
accumulate(adding, acc, num) == IF adding THEN FAdd(acc, num) ELSE FMul(acc, num)

\* mutant of fold_step: an operand that fails is skipped
fold_step_skips_failed(adding, arr, i, acc, path, log, r) ==
    IF ~r.res.ok
    THEN fold(adding, arr, i + 1, acc, path, log \o r.log)
    ELSE fold(adding, arr, i + 1, accumulate(adding, acc, r.res.val), path, log \o r.log)

\* one turn of `for v in &arr[1..]`, r being the evaluation of the operand
fold_step(adding, arr, i, acc, path, log, r) ==
    IF ~r.res.ok
    THEN Evaluated(r.res, log \o r.log)
    ELSE fold(adding, arr, i + 1, accumulate(adding, acc, r.res.val), path, log \o r.log)

\* the loop from the operand arr[i - 1] of the source on, then `Ok(res)`
fold(adding, arr, i, acc, path, log) ==
    IF i > Len(arr)
    THEN Evaluated(Ok(acc), log)
    ELSE fold_step(adding, arr, i, acc, path, log, eval_at(arr[i], Append(path, i - 1)))

\* mutant of binary_rhs: a zero divisor is an error
binary_rhs_checked(minus, rx, ry, path) ==
    IF ~ry.res.ok
    THEN Evaluated(ry.res, <<path>> \o rx.log \o ry.log)
    ELSE IF ~minus /\ IsZero(ry.res.val)
    THEN Evaluated(Err(SexprError("division by zero", ry.res.val)),
                   <<path>> \o rx.log \o ry.log)
    ELSE Evaluated(Ok(IF minus THEN FSub(rx.res.val, ry.res.val)
                               ELSE FDiv(rx.res.val, ry.res.val)),
                   <<path>> \o rx.log \o ry.log)

\* `let y = eval(&arr[2])?` and the result, ry being the evaluation of arr[2]
binary_rhs(minus, rx, ry, path) ==
    IF ~ry.res.ok
    THEN Evaluated(ry.res, <<path>> \o rx.log \o ry.log)
    ELSE Evaluated(Ok(IF minus THEN FSub(rx.res.val, ry.res.val)
                               ELSE FDiv(rx.res.val, ry.res.val)),
                   <<path>> \o rx.log \o ry.log)

\* `let x = eval(&arr[1])?`, rx being the evaluation of arr[1]
binary(minus, arr, path, rx) ==
    IF ~rx.res.ok
    THEN Evaluated(rx.res, <<path>> \o rx.log)
    ELSE binary_rhs(minus, rx, eval_at(arr[3], Append(path, 2)), path)

\* mutant of operator_form: an operator that is not known adds
operator_form_default_add(arr, path) ==
    IF arr[1].t = "Str"
    THEN IF arr[1].s = <<"-">> \/ arr[1].s = <<"/">>
         THEN binary(arr[1].s = <<"-">>, arr, path, eval_at(arr[2], Append(path, 1)))
         ELSE fold(arr[1].s # <<"*">>, arr, 2, start(arr[1].s # <<"*">>), path, <<path>>)
    ELSE Evaluated(Err(SexprError("operator must be string", arr[1])), <<path>>)

\* `match arr[0]` of an array of more than two items
operator_form(arr, path) ==
    IF arr[1].t = "Str"
    THEN IF arr[1].s = <<"+">> \/ arr[1].s = <<"*">>
         THEN fold(arr[1].s = <<"+">>, arr, 2, start(arr[1].s = <<"+">>), path, <<path>>)
         ELSE IF arr[1].s = <<"-">> \/ arr[1].s = <<"/">>
         THEN binary(arr[1].s = <<"-">>, arr, path, eval_at(arr[2], Append(path, 1)))
         ELSE Evaluated(Err(SexprError("unknown operator", arr[1].s)), <<path>>)
    ELSE Evaluated(Err(SexprError("operator must be string", arr[1])), <<path>>)

\* mutant of eval_at: a Bool converts to 1.0 or 0.0
eval_at_bool_converts(v, path) ==
    IF v.t = "Arr" /\ Len(v.a) > 2 THEN operator_form(v.a, path)
    ELSE IF v.t = "Number" THEN Evaluated(Ok(FromInt(v.n)), <<path>>)
    ELSE IF v.t = "Bool" THEN Evaluated(Ok(FromInt(IF v.b THEN 1 ELSE 0)), <<path>>)
    ELSE Evaluated(Err(SexprError("cannot convert to number", v)), <<path>>)

\* `match *v` for the value v found at path
eval_at(v, path) ==
    IF v.t = "Arr" /\ Len(v.a) > 2 THEN operator_form(v.a, path)
    ELSE IF v.t = "Number" THEN Evaluated(Ok(FromInt(v.n)), <<path>>)
    ELSE Evaluated(Err(SexprError("cannot convert to number", v)), <<path>>)

eval(v) == eval_at(v, <<>>).res

(***************************************************************************)
(* Display for Value (new-sexpr.rs:13-29).  `{}` of an f64 with an integer *)
(* value is its decimal digits, with a '-' in front when negative; the     *)
(* other f64 values need a '.' that the scanned texts do not have.         *)
(***************************************************************************)
DigitChar(d) == <<"0", "1", "2", "3", "4", "5", "6", "7", "8", "9">>[d + 1]

RECURSIVE DigitsOf(_)
DigitsOf(k) ==
    IF k < 10 THEN <<DigitChar(k)>>
    ELSE DigitsOf(k \div 10) \o <<DigitChar(k % 10)>>

\* `{}` of the f64 k
f64_to_string(k) == IF k < 0 THEN <<"-">> \o DigitsOf(0 - k) ELSE DigitsOf(k)

\* `{}` of a bool
bool_to_string(v) ==
    IF v THEN <<"t", "r", "u", "e">> ELSE <<"f", "a", "l", "s", "e">>

RECURSIVE fmt(_)
RECURSIVE fmt_items(_)

\* mutant of fmt: the atoms are written without the space after them
fmt_no_space(v) ==
    IF v.t = "Number" THEN f64_to_string(v.n)
    ELSE IF v.t = "Str" THEN v.s
    ELSE IF v.t = "Bool" THEN bool_to_string(v.b)
    ELSE <<"(">> \o fmt_items(v.a) \o <<")">>

\* what fmt writes for v
fmt(v) ==
    IF v.t = "Number" THEN f64_to_string(v.n) \o <<" ">>
    ELSE IF v.t = "Str" THEN v.s \o <<" ">>
    ELSE IF v.t = "Bool" THEN bool_to_string(v.b) \o <<" ">>
    ELSE <<"(">> \o fmt_items(v.a) \o <<")">>

\* `for v in arr.iter() { v.fmt(f)?; }`
fmt_items(items) ==
    IF items = <<>> THEN <<>>
    ELSE fmt(items[1]) \o fmt_items(SubSeq(items, 2, Len(items)))

(***************************************************************************)
(* State.                                                                  *)
(*   builder   the Builder (of the client under Spec, of parse() under     *)
(*             ParseSpec)                                                  *)
(*   ret       what the last value() call returned ("none" before)         *)
(*   calls     history: the Builder calls made so far, oldest first        *)
(*   firstError history: the first message the latch ever held             *)
(*   text      history: the characters parse() has scanned so far         *)
(*   word      parse()'s accumulation buffer                               *)
(*   pc        "client" under Spec; under ParseSpec "scan" while the loop  *)
(*             runs and "done" once parse() has returned                   *)
(*   result    what parse() returned ("none" before); under WordSpec what   *)
(*             parse_word() returned                                       *)
(*   tree      the Value eval() is called on under EvalSpec               *)
(*   answer    what eval() returned ("none" before)                        *)
(*   visited   the paths of the values eval() was called on, in call order *)
(***************************************************************************)
VARIABLES builder, ret, calls, firstError, text, word, pc, result,
          tree, answer, visited

vars == <<builder, ret, calls, firstError, text, word, pc, result,
         tree, answer, visited>>

NoRet == "none"

\* arguments the client passes to s(), b() and n()
StrArgs == {<<"a">>}
BoolArgs == BOOLEAN
NumArgs == {1}

Call(op) == [op |-> op]
CallV(op, v) == [op |-> op, v |-> v]

\* the latch history after a call
Latched(b1) == IF firstError = None THEN b1.error ELSE firstError

Init ==
    /\ builder = new
    /\ ret = NoRet
    /\ calls = <<>>
    /\ firstError = None
    /\ text = <<>>
    /\ word = <<>>
    /\ pc = "client"
    /\ result = NoRet
    /\ tree = NoRet
    /\ answer = NoRet
    /\ visited = <<>>

ParseVarsUnchanged == UNCHANGED <<text, word, pc, result, tree, answer, visited>>

CallOpen ==
    /\ pc = "client" /\ Len(calls) < MaxOps
    /\ builder' = open(builder)
    /\ calls' = Append(calls, Call("open"))
    /\ firstError' = Latched(builder')
    /\ UNCHANGED ret
    /\ ParseVarsUnchanged

CallClose ==
    /\ pc = "client" /\ Len(calls) < MaxOps
    /\ builder' = close(builder)
    /\ calls' = Append(calls, Call("close"))
    /\ firstError' = Latched(builder')
    /\ UNCHANGED ret
    /\ ParseVarsUnchanged

CallS ==
    /\ pc = "client" /\ Len(calls) < MaxOps
    /\ \E str \in StrArgs :
          /\ builder' = s(builder, str)
          /\ calls' = Append(calls, CallV("s", Str(str)))
    /\ firstError' = Latched(builder')
    /\ UNCHANGED ret
    /\ ParseVarsUnchanged

CallB ==
    /\ pc = "client" /\ Len(calls) < MaxOps
    /\ \E v \in BoolArgs :
          /\ builder' = b(builder, v)
          /\ calls' = Append(calls, CallV("b", Bool(v)))
    /\ firstError' = Latched(builder')
    /\ UNCHANGED ret
    /\ ParseVarsUnchanged

CallN ==
    /\ pc = "client" /\ Len(calls) < MaxOps
    /\ \E v \in NumArgs :
          /\ builder' = n(builder, v)
          /\ calls' = Append(calls, CallV("n", Number(v)))
    /\ firstError' = Latched(builder')
    /\ UNCHANGED ret
    /\ ParseVarsUnchanged

CallValue ==
    /\ pc = "client" /\ Len(calls) < MaxOps
    /\ \E r \in {value(builder)} :
          /\ builder' = r.builder
          /\ ret' = r.ret
    /\ calls' = Append(calls, Call("value"))
    /\ UNCHANGED firstError
    /\ ParseVarsUnchanged

Next == CallOpen \/ CallClose \/ CallS \/ CallB \/ CallN \/ CallValue

Spec == Init /\ [][Next]_vars

(***************************************************************************)
(* ParseSpec: parse() on a text of at most MaxLen characters, one action   *)
(* per branch of the scan loop and one for the return after the loop.      *)
(***************************************************************************)
ParseInit ==
    /\ builder = new
    /\ ret = NoRet
    /\ calls = <<>>
    /\ firstError = None
    /\ text = <<>>
    /\ word = <<>>
    /\ pc = "scan"
    /\ result = NoRet
    /\ tree = NoRet
    /\ answer = NoRet
    /\ visited = <<>>

\* the loop body on the next character ch of the text
Scan(ch) ==
    \E ps \in {scan_char([builder |-> builder, word |-> word, err |-> None], ch)} :
        /\ builder' = ps.builder
        /\ word' = ps.word
        /\ pc' = IF ps.err = None THEN "scan" ELSE "done"
        /\ result' = IF ps.err = None THEN result ELSE Err(ps.err)
        /\ text' = Append(text, ch)
        /\ UNCHANGED <<ret, calls, firstError, tree, answer, visited>>

ScanWhitespace ==
    /\ pc = "scan" /\ Len(text) < MaxLen
    /\ \E ch \in Whitespace : Scan(ch)

ScanOpen ==
    /\ pc = "scan" /\ Len(text) < MaxLen
    /\ Scan("(")

ScanClose ==
    /\ pc = "scan" /\ Len(text) < MaxLen
    /\ Scan(")")

ScanWordChar ==
    /\ pc = "scan" /\ Len(text) < MaxLen
    /\ \E ch \in WordChars : Scan(ch)

\* mutant of EndOfText: the pending word is flushed before `builder.value()`
EndOfText_flushes ==
    /\ pc = "scan"
    /\ \E f \in {flush_word([builder |-> builder, word |-> word, err |-> None])} :
          \E r \in {value(f.builder)} :
              /\ builder' = r.builder
              /\ ret' = r.ret
              /\ result' = IF f.err = None THEN r.ret ELSE Err(f.err)
    /\ pc' = "done"
    /\ UNCHANGED <<calls, firstError, text, word, tree, answer, visited>>

\* the text is exhausted: `builder.value()` is the result
EndOfText ==
    /\ pc = "scan"
    /\ \E r \in {value(builder)} :
          /\ builder' = r.builder
          /\ ret' = r.ret
          /\ result' = r.ret
    /\ pc' = "done"
    /\ UNCHANGED <<calls, firstError, text, word, tree, answer, visited>>

ParseNext == ScanWhitespace \/ ScanOpen \/ ScanClose \/ ScanWordChar \/ EndOfText

ParseSpec == ParseInit /\ [][ParseNext]_vars

(***************************************************************************)
(* WordSpec: parse_word() on one non-empty token of at most MaxWord        *)
(* characters, with a Builder that is not open, open, or latched.          *)
(***************************************************************************)
WordAlphabet == {"T", "F", "a", "1", "-", "+"}

Tokens == UNION {[1..k -> WordAlphabet] : k \in 1..MaxWord}

WordBuilders == {new, open(new), close(new)}

WordInit ==
    /\ builder \in WordBuilders
    /\ ret = NoRet
    /\ calls = <<>>
    /\ firstError = None
    /\ text = <<>>
    /\ word \in Tokens
    /\ pc = "classify"
    /\ result = NoRet
    /\ tree = NoRet
    /\ answer = NoRet
    /\ visited = <<>>

ParseWord ==
    /\ pc = "classify"
    /\ \E r \in {parse_word(builder, word)} :
          /\ builder' = r.builder
          /\ result' = IF r.err = None THEN Ok(<<>>) ELSE Err(r.err)
    /\ pc' = "classified"
    /\ UNCHANGED <<ret, calls, firstError, text, word, tree, answer, visited>>

WordNext == ParseWord

WordSpec == WordInit /\ [][WordNext]_vars

(***************************************************************************)
(* EvalSpec: eval() on one Value: an atom, one of a few operator forms, or *)
(* a root array of at most MaxItems of those.                              *)
(***************************************************************************)
Leaves ==
    {Number(0), Number(2), Bool(TRUE),
     Str(<<"+">>), Str(<<"*">>), Str(<<"-">>), Str(<<"/">>), Str(<<"?">>)}

\* ( ), (- 0 2) = -2, (/ 2 0) = inf, (* 0 (- 0 2)) = -0, and two forms
\* that fail: (? 2 2) and (2 2 2)
Forms ==
    {Arr(<<>>),
     Arr(<<Str(<<"-">>), Number(0), Number(2)>>),
     Arr(<<Str(<<"/">>), Number(2), Number(0)>>),
     Arr(<<Str(<<"*">>), Number(0), Arr(<<Str(<<"-">>), Number(0), Number(2)>>)>>),
     Arr(<<Str(<<"?">>), Number(2), Number(2)>>),
     Arr(<<Number(2), Number(2), Number(2)>>)}

Items == Leaves \cup Forms

Trees == Items \cup {Arr(a) : a \in UNION {[1..k -> Items] : k \in 0..MaxItems}}

EvalInit ==
    /\ builder = new
    /\ ret = NoRet
    /\ calls = <<>>
    /\ firstError = None
    /\ text = <<>>
    /\ word = <<>>
    /\ pc = "eval"
    /\ result = NoRet
    /\ tree \in Trees
    /\ answer = NoRet
    /\ visited = <<>>

Eval ==
    /\ pc = "eval"
    /\ \E r \in {eval_at(tree, <<>>)} :
          /\ answer' = r.res
          /\ visited' = r.log
    /\ pc' = "evaluated"
    /\ UNCHANGED <<builder, ret, calls, firstError, text, word, result, tree>>

EvalNext == Eval

EvalSpec == EvalInit /\ [][EvalNext]_vars

(***************************************************************************)
(* Vocabulary of the properties.                                           *)
(***************************************************************************)
PushOps == {"s", "b", "n"}

LastCall == calls[Len(calls)]

NeverOpened == \A i \in 1..Len(calls) : calls[i].op # "open"

ValueCalls == {i \in 1..Len(calls) : calls[i].op = "value"}

\* the step is a call of value()
ValueCalled == Len(calls') = Len(calls) + 1 /\ calls'[Len(calls')].op = "value"

\* the values handed to s(), b() and n() so far, oldest first
RECURSIVE PushedUpTo(_)
PushedUpTo(k) ==
    IF k = 0 THEN <<>>
    ELSE IF calls[k].op \in PushOps THEN Append(PushedUpTo(k - 1), calls[k].v)
    ELSE PushedUpTo(k - 1)

\* the leaves of a Value tree, left to right
RECURSIVE Atoms(_)
RECURSIVE AtomsOfItems(_)
Atoms(v) == IF v.t = "Arr" THEN AtomsOfItems(v.a) ELSE <<v>>
AtomsOfItems(items) ==
    IF items = <<>> THEN <<>>
    ELSE Atoms(items[1]) \o AtomsOfItems(SubSeq(items, 2, Len(items)))

\* the Builder after one recorded call, and after a sequence of them
Replay(b0, call) ==
    IF call.op = "open" THEN open(b0)
    ELSE IF call.op = "close" THEN close(b0)
    ELSE IF call.op = "value" THEN value(b0).builder
    ELSE push(b0, call.v)

RECURSIVE BuilderAfter(_, _)
BuilderAfter(cs, k) == IF k = 0 THEN new ELSE Replay(BuilderAfter(cs, k - 1), cs[k])

(***************************************************************************)
(* Properties of the Builder, under Spec.                                  *)
(***************************************************************************)

\* C1: once the error field is set it is never set back to None, and every
\* value() call made from then on returns Err.
C1_ErrorLatchSticky ==
    [][builder.error # None =>
          /\ builder'.error # None
          /\ ValueCalled => ~ret'.ok]_vars

\* C1 witness: the latch was set by the first call, the Builder was used
\* further, and a later value() returned Err.
C1_Witness ==
    /\ Len(calls) >= 4
    /\ calls[1].op = "close"
    /\ \E i \in 2..(Len(calls) - 1) : calls[i].op = "open"
    /\ \E i \in 2..(Len(calls) - 1) : calls[i].op \in PushOps
    /\ LastCall.op = "value"
    /\ builder.error # None
    /\ ~ret.ok

\* C2 (as claimed): the message value() returns is the message of the first
\* fault that was latched; no later call replaces it.
C2_FirstFaultPreserved ==
    firstError # None => value(builder).ret = Err(firstError)

\* C3 (as claimed): once the error is set, every call leaves stack, current
\* and the open flag unchanged.
C3_LatchedCallsAreNoOps ==
    [][builder.error # None =>
          /\ builder'.stack = builder.stack
          /\ builder'.current = builder.current
          /\ builder'.open = builder.open]_vars

\* C4 (as claimed): the first value() after open / close / push calls that
\* latched no error returns a root holding every value pushed so far, the
\* values pushed at levels that are still open included.
C4_ValueReturnsAllPushed ==
    (/\ calls # <<>>
     /\ ValueCalls = {Len(calls)}
     /\ ret.ok)
        => Atoms(ret.val) = PushedUpTo(Len(calls) - 1)

\* C5 (as claimed): once the root has been opened and closed, a further
\* open(), push(v), close() makes value() return Err("mismatched open/close")
\* and appends nothing to the root.
C5_SecondRootRejected ==
    \A k \in 1..(Len(calls) - 3) :
        \E pre \in {BuilderAfter(calls, k)} :
            (/\ ~NeverOpened
             /\ \A i \in 1..k : calls[i].op # "value"
             /\ ~pre.open /\ pre.stack = <<>> /\ pre.error = None
             /\ calls[k + 1].op = "open"
             /\ calls[k + 2].op \in PushOps
             /\ calls[k + 3].op = "close"
             /\ Len(calls) = k + 3)
                => /\ value(builder).ret = Err("mismatched open/close")
                   /\ builder.current = pre.current

\* C7: while open() has never been called, current is empty, and any push
\* appends nothing, latches the error and makes value() return
\* Err("not open!").
C7_PushBeforeOpen ==
    NeverOpened =>
        /\ builder.current = <<>>
        /\ \A v \in {Str(<<"a">>), Bool(TRUE), Bool(FALSE), Number(1)} :
              /\ push(builder, v).current = <<>>
              /\ push(builder, v).error = "not open!"
              /\ value(push(builder, v)).ret = Err("not open!")

\* C7 witness: no open() so far, a push was made, and value() then returned
\* Err("not open!").
C7_Witness ==
    /\ NeverOpened
    /\ Len(calls) >= 2
    /\ calls[Len(calls) - 1].op \in PushOps
    /\ LastCall.op = "value"
    /\ builder.current = <<>>
    /\ ret = Err("not open!")

(***************************************************************************)
(* Vocabulary of the properties of parse(): the parentheses of a text.     *)
(***************************************************************************)
\* the nesting depth after a character, from the depth d before it; a ')'
\* with nothing open leaves the depth at 0
NestStep(d, ch) ==
    IF ch = "(" THEN d + 1
    ELSE IF ch = ")" /\ d > 0 THEN d - 1
    ELSE d

\* the nesting depth after the first k characters of txt
RECURSIVE NestingAt(_, _)
NestingAt(txt, k) ==
    IF k = 0 THEN 0 ELSE NestStep(NestingAt(txt, k - 1), txt[k])

\* some ')' occurs when every '(' before it has already been closed
HasUnmatchedClose(txt) ==
    \E k \in 1..Len(txt) : txt[k] = ")" /\ NestingAt(txt, k - 1) = 0

Balanced(txt) == ~HasUnmatchedClose(txt) /\ NestingAt(txt, Len(txt)) = 0

\* the positions of the '(' that open a top-level form
RootOpens(txt) == {k \in 1..Len(txt) : txt[k] = "(" /\ NestingAt(txt, k - 1) = 0}

RECURSIVE MaxNestingUpTo(_, _)
MaxNestingUpTo(txt, k) ==
    IF k = 0 THEN 0
    ELSE IF NestingAt(txt, k) > MaxNestingUpTo(txt, k - 1) THEN NestingAt(txt, k)
    ELSE MaxNestingUpTo(txt, k - 1)

MaxNesting(txt) == MaxNestingUpTo(txt, Len(txt))

\* the depth of a Value tree: an array is one deeper than its deepest item
RECURSIVE TreeDepth(_)
RECURSIVE ItemsDepth(_)
TreeDepth(v) == IF v.t = "Arr" THEN 1 + ItemsDepth(v.a) ELSE 0
ItemsDepth(items) ==
    IF items = <<>> THEN 0
    ELSE IF TreeDepth(items[1]) > ItemsDepth(SubSeq(items, 2, Len(items)))
         THEN TreeDepth(items[1])
         ELSE ItemsDepth(SubSeq(items, 2, Len(items)))

\* txt[i..j] is a token: a maximal run of word characters
IsToken(txt, i, j) ==
    /\ \A k \in i..j : txt[k] \in WordChars
    /\ i = 1 \/ txt[i - 1] \notin WordChars
    /\ j = Len(txt) \/ txt[j + 1] \notin WordChars

\* an atom of the grammar: a number, T, F, or a bare word, the operator names
\* + - * / included
IsAtom(tok) ==
    \/ IsFloatLiteral(tok)
    \/ tok \in {<<"T">>, <<"F">>}
    \/ tok \in {<<"+">>, <<"-">>, <<"*">>, <<"/">>}
    \/ tok[1] \notin Digits \cup {"+", "-"}

\* document := '(' form* ')': one root form, balanced, nothing but whitespace
\* outside it, every token an atom
WellFormed(txt) ==
    /\ Balanced(txt)
    /\ Cardinality(RootOpens(txt)) = 1
    /\ \A k \in 1..Len(txt) :
          (NestingAt(txt, k - 1) = 0 /\ txt[k] # "(") => txt[k] \in Whitespace
    /\ \A i \in 1..Len(txt) : \A j \in i..Len(txt) :
          IsToken(txt, i, j) => IsAtom(SubSeq(txt, i, j))

\* txt with a space before and after every '(' and ')'
RECURSIVE Spaced(_)
Spaced(txt) ==
    IF txt = <<>> THEN <<>>
    ELSE (IF txt[1] \in {"(", ")"} THEN <<" ", txt[1], " ">> ELSE <<txt[1]>>)
            \o Spaced(SubSeq(txt, 2, Len(txt)))

(***************************************************************************)
(* Properties of parse(), under ParseSpec.                                 *)
(***************************************************************************)

\* C6: a text in which some ')' occurs when every '(' before it is closed
\* makes parse return Err, whatever follows; for "( a ) )" the error is
\* "mismatched open/close".
C6_MismatchedCloseReported ==
    pc = "done" =>
        /\ HasUnmatchedClose(text) => ~result.ok
        /\ text = <<"(", " ", "a", " ", ")", " ", ")">>
              => result = Err("mismatched open/close")

\* C6 witness: parse has returned "mismatched open/close" for "( a ) )".
C6_Witness ==
    /\ pc = "done"
    /\ text = <<"(", " ", "a", " ", ")", " ", ")">>
    /\ HasUnmatchedClose(text)
    /\ result = Err("mismatched open/close")

\* C8 (as claimed): every text of the grammar document := '(' form* ')'
\* whose atoms are numbers, T, F and bare words (+ - * / included) parses Ok.
C8_WellFormedParses ==
    (pc = "done" /\ WellFormed(text)) => result.ok

\* C9: for a balanced text with one root form on which parse returns Ok, the
\* depth of the tree (the root array counts 1) is the deepest nesting of the
\* parentheses.
C9_DepthPreserved ==
    (/\ pc = "done"
     /\ result.ok
     /\ Balanced(text)
     /\ Cardinality(RootOpens(text)) = 1)
        => TreeDepth(result.val) = MaxNesting(text)

\* C9 witness: parse returned a tree of depth 3 for a balanced text with one
\* root form nested 3 deep and a word inside.
C9_Witness ==
    /\ pc = "done"
    /\ result.ok
    /\ Balanced(text)
    /\ Cardinality(RootOpens(text)) = 1
    /\ MaxNesting(text) = 3
    /\ TreeDepth(result.val) = 3
    /\ Atoms(result.val) # <<>>

\* C10 (as claimed): parse returns the same result for a text and for the
\* text with a space put before and after every '(' and ')'.
C10_ParensDelimitTokens ==
    pc = "done" => result = parse(Spaced(text))

\* the first character that is not whitespace is a word character: a bare
\* atom outside any '('
StartsWithBareAtom(txt) ==
    \E k \in 1..Len(txt) :
        /\ txt[k] \in WordChars
        /\ \A j \in 1..(k - 1) : txt[j] \in Whitespace

\* C11 (as claimed): a text whose first non-whitespace character is a word
\* character outside any '(' makes parse return Err, whether or not
\* whitespace follows the atom.
C11_BareTopLevelAtomRejected ==
    (pc = "done" /\ StartsWithBareAtom(text)) => ~result.ok

\* a token parse_word sends to the float parser and that is no float
BadNumber(w) ==
    /\ w # <<>>
    /\ w[1] \in Digits \/ w[1] = "-"
    /\ ~parse_f64(w).ok

\* the step scans a character that flushes the pending word
FlushScanned ==
    /\ pc = "scan"
    /\ Len(text') = Len(text) + 1
    /\ text'[Len(text')] \in Whitespace \cup {")"}

\* C12: when the scan flushes a malformed number, parse returns the numeric
\* error at once: the Builder is not touched by that step (no push, no
\* close), nothing is scanned afterwards, and the result is the numeric error
\* whatever the Builder had latched before.
C12_BadNumberAborts ==
    [][/\ (FlushScanned /\ BadNumber(word)) =>
              /\ pc' = "done"
              /\ result' = Err("invalid float literal")
              /\ builder' = builder
       /\ pc = "done" => UNCHANGED vars]_vars

\* C12 witness: parse returned the numeric error although the Builder had
\* latched a structural error earlier in the text.
C12_Witness ==
    /\ pc = "done"
    /\ BadNumber(word)
    /\ HasUnmatchedClose(text)
    /\ builder.error = "mismatched open/close"
    /\ result = Err("invalid float literal")

(***************************************************************************)
(* Properties of parse_word(), under WordSpec.                             *)
(***************************************************************************)

\* C13: parse_word pushes Bool(true) for exactly "T" and Bool(false) for
\* exactly "F"; otherwise, when the first character is a digit or '-', it
\* pushes Number(x) if the token is a float and returns Err without pushing
\* if not; otherwise it pushes Str(token) unchanged.
C13_WordClassification ==
    [][pc = "classify" =>
          IF word = <<"T">>
          THEN builder' = push(builder, Bool(TRUE)) /\ result' = Ok(<<>>)
          ELSE IF word = <<"F">>
          THEN builder' = push(builder, Bool(FALSE)) /\ result' = Ok(<<>>)
          ELSE IF word[1] \in Digits \cup {"-"}
          THEN IF parse_f64(word).ok
               THEN /\ builder' = push(builder, Number(parse_f64(word).val))
                    /\ result' = Ok(<<>>)
               ELSE /\ builder' = builder
                    /\ ~result'.ok
          ELSE builder' = push(builder, Str(word)) /\ result' = Ok(<<>>)]_vars

\* C13 witness: the token "-1" was pushed as Number(-1) on an open Builder,
\* and the token "TT" is a string.
C13_Witness ==
    /\ pc = "classified"
    /\ \/ word = <<"-", "1">> /\ builder.current = <<Number(0 - 1)>>
       \/ word = <<"T", "T">> /\ builder.current = <<Str(<<"T", "T">>)>>
    /\ result = Ok(<<>>)

\* digits: one digit or more
IsDigitRun(w) == w # <<>> /\ AllDigits(w)

\* digits ['.' digits]
IsGrammarMantissa(w, dot) ==
    IF dot = 0 THEN IsDigitRun(w)
    ELSE IsDigitRun(SubSeq(w, 1, dot - 1)) /\ IsDigitRun(SubSeq(w, dot + 1, Len(w)))

\* number := ['+'|'-'] digits ['.' digits] [('e'|'E') ['+'|'-'] digits]
IsGrammarBody(w, ePos) ==
    IF ePos = 0 THEN IsGrammarMantissa(w, FirstIndex(w, {"."}))
    ELSE /\ IsGrammarMantissa(SubSeq(w, 1, ePos - 1),
                              FirstIndex(SubSeq(w, 1, ePos - 1), {"."}))
         /\ IsDigitRun(StripSign(SubSeq(w, ePos + 1, Len(w))))

IsGrammarNumber(w) == IsGrammarBody(StripSign(w), FirstIndex(StripSign(w), {"e", "E"}))

\* C14 (as claimed): every token of the `number` production, a leading '+'
\* included, is stored in the tree as a Number.
C14_GrammarNumbersAreNumbers ==
    [][(/\ pc = "classify"
        /\ IsGrammarNumber(word)
        /\ builder.open /\ builder.error = None)
          => /\ Len(builder'.current) = Len(builder.current) + 1
             /\ builder'.current[Len(builder'.current)].t = "Number"]_vars

(***************************************************************************)
(* Properties of eval(), under EvalSpec.  Operand k of a form is the item  *)
(* at index k of the source, tree.a[k + 1] here.                           *)
(***************************************************************************)
IsForm(v) == v.t = "Arr" /\ Len(v.a) > 2

HeadedBy(v, ops) == IsForm(v) /\ v.a[1].t = "Str" /\ v.a[1].s \in ops

Operand(v, k) == v.a[k + 1]

LastOperand(v) == Len(v.a) - 1

OperandsOk(v) == \A k \in 1..LastOperand(v) : eval(Operand(v, k)).ok

FrontOf(vals) == SubSeq(vals, 1, Len(vals) - 1)

RECURSIVE SumOf(_)
SumOf(vals) ==
    IF vals = <<>> THEN FromInt(0)
    ELSE FAdd(SumOf(FrontOf(vals)), vals[Len(vals)])

RECURSIVE ProductOf(_)
ProductOf(vals) ==
    IF vals = <<>> THEN FromInt(1)
    ELSE FMul(ProductOf(FrontOf(vals)), vals[Len(vals)])

OperandValues(v) == [k \in 1..LastOperand(v) |-> eval(Operand(v, k)).val]

\* C15: for an array of more than 2 items headed by "+" (resp. "*") whose
\* other items all evaluate, eval returns the sum from 0 (resp. the product
\* from 1) of the results of the items at index 1 and above, left to right.
C15_SumAndProductFolds ==
    (pc = "evaluated" /\ HeadedBy(tree, {<<"+">>, <<"*">>}) /\ OperandsOk(tree)) =>
        answer = Ok(IF tree.a[1].s = <<"+">>
                    THEN SumOf(OperandValues(tree))
                    ELSE ProductOf(OperandValues(tree)))

\* C15 witness: (* 2 2 (- 0 2)) evaluated to -8, and (+ 2 2 2) to 6.
C15_Witness ==
    /\ pc = "evaluated"
    /\ \/ /\ tree = Arr(<<Str(<<"*">>), Number(2), Number(2),
                         Arr(<<Str(<<"-">>), Number(0), Number(2)>>)>>)
          /\ answer = Ok(FromInt(0 - 8))
       \/ /\ tree = Arr(<<Str(<<"+">>), Number(2), Number(2), Number(2)>>)
          /\ answer = Ok(FromInt(6))

\* the calls of eval below the root went to operands 1..k only
VisitedWithin(k) ==
    \A i \in 1..Len(visited) : visited[i] # <<>> => visited[i][1] \in 1..k

\* C16: for an array of more than 2 items headed by "-" or "/", eval
\* evaluates only items 1 and 2; the items at index 3 and above are never
\* evaluated and change neither the result nor the error; and when items 1
\* and 2 evaluate the result is Ok (difference or quotient), a zero divisor
\* included.
C16_SubAndDivAreBinary ==
    (pc = "evaluated" /\ HeadedBy(tree, {<<"-">>, <<"/">>})) =>
        /\ VisitedWithin(2)
        /\ answer = eval(Arr(SubSeq(tree.a, 1, 3)))
        /\ (eval(Operand(tree, 1)).ok /\ eval(Operand(tree, 2)).ok) =>
              answer = Ok(IF tree.a[1].s = <<"-">>
                          THEN FSub(eval(Operand(tree, 1)).val, eval(Operand(tree, 2)).val)
                          ELSE FDiv(eval(Operand(tree, 1)).val, eval(Operand(tree, 2)).val))

\* C16 witness: (/ 2 0 (? 2 2)) evaluated to +infinity.
C16_Witness ==
    /\ pc = "evaluated"
    /\ tree = Arr(<<Str(<<"/">>), Number(2), Number(0),
                   Arr(<<Str(<<"?">>), Number(2), Number(2)>>)>>)
    /\ answer = Ok(Infinity(FALSE))
    /\ visited = <<<<>>, <<1>>, <<2>>>>

\* C17: eval returns "operator must be string" for an array of more than 2
\* items whose first item is not a Str; "unknown operator" for one whose
\* first item is a Str other than + * - /, with no operand evaluated;
\* "cannot convert ... to number" for a Str, a Bool or an array of at most
\* 2 items; and Ok(x) for Number(x).
C17_ErrorsByShape ==
    pc = "evaluated" =>
        IF IsForm(tree)
        THEN IF tree.a[1].t # "Str"
             THEN answer = Err(SexprError("operator must be string", tree.a[1]))
             ELSE tree.a[1].s \notin {<<"+">>, <<"*">>, <<"-">>, <<"/">>} =>
                    /\ answer = Err(SexprError("unknown operator", tree.a[1].s))
                    /\ visited = <<<<>>>>
        ELSE IF tree.t = "Number"
        THEN answer = Ok(FromInt(tree.n))
        ELSE answer = Err(SexprError("cannot convert to number", tree))

\* C17 witness: (? T ( )) failed as an unknown operator without a look at
\* its operands.
C17_Witness ==
    /\ pc = "evaluated"
    /\ tree = Arr(<<Str(<<"?">>), Bool(TRUE), Arr(<<>>)>>)
    /\ answer = Err(SexprError("unknown operator", <<"?">>))
    /\ visited = <<<<>>>>

\* operand k is the first, left to right, whose evaluation fails
FirstFailing(v, k) ==
    /\ ~eval(Operand(v, k)).ok
    /\ \A j \in 1..(k - 1) : eval(Operand(v, j)).ok

\* C18: a + or * form with failing operands returns exactly the error of
\* the first failing operand and evaluates no operand after it; a - or /
\* form returns the failure of item 1 before item 2 is evaluated; the error
\* is the one the innermost frame made, unwrapped, and no number is
\* returned.
C18_FirstErrorPropagates ==
    pc = "evaluated" =>
        /\ HeadedBy(tree, {<<"+">>, <<"*">>}) =>
              \A k \in 1..LastOperand(tree) :
                  FirstFailing(tree, k) =>
                      answer = eval(Operand(tree, k)) /\ VisitedWithin(k)
        /\ HeadedBy(tree, {<<"-">>, <<"/">>}) =>
              \A k \in 1..2 :
                  FirstFailing(tree, k) =>
                      answer = eval(Operand(tree, k)) /\ VisitedWithin(k)

\* C18 witness: (+ 2 (? 2 2) T) failed with the error of (? 2 2) and T was
\* not evaluated.
C18_Witness ==
    /\ pc = "evaluated"
    /\ tree = Arr(<<Str(<<"+">>), Number(2),
                   Arr(<<Str(<<"?">>), Number(2), Number(2)>>), Bool(TRUE)>>)
    /\ answer = Err(SexprError("unknown operator", <<"?">>))
    /\ visited = <<<<>>, <<1>>, <<2>>>>

(***************************************************************************)
(* Display and parse together, under ParseSpec.                            *)
(***************************************************************************)

\* the nesting shape of a Value: for an array, the shapes of its items
RECURSIVE Shape(_)
Shape(v) ==
    IF v.t = "Arr"
    THEN [arr |-> TRUE, items |-> [i \in 1..Len(v.a) |-> Shape(v.a[i])]]
    ELSE [arr |-> FALSE, items |-> <<>>]

\* back, the outcome of parsing the rendering of t, is a tree shaped as t
SameShapeBack(t, back) == back.ok /\ Shape(back.val) = Shape(t)

\* C20: for every tree parse returns Ok, its Display rendering is not
\* empty, parse of the rendering returns Ok, and the tree parsed back has
\* the same nesting shape and the same number of items in every array.
C20_DisplayThenParseKeepsShape ==
    (pc = "done" /\ result.ok) =>
        /\ fmt(result.val) # <<>>
        /\ SameShapeBack(result.val, parse(fmt(result.val)))

\* C20 witness: "((a 1))" parsed to ((a 1)), rendered as "((a 1 ))".
C20_Witness ==
    /\ pc = "done"
    /\ result = Ok(Arr(<<Arr(<<Str(<<"a">>), Number(1)>>)>>))
    /\ fmt(result.val) = <<"(", "(", "a", " ", "1", " ", ")", ")">>
    /\ parse(fmt(result.val)) = result

(***************************************************************************)
(* The end of the text, under ParseSpec.                                   *)
(***************************************************************************)

\* txt is a text of k characters that is empty or ends with whitespace or
\* ')', followed by a word
TrailingWordAt(txt, k) ==
    /\ k = 0 \/ txt[k] \in Whitespace \cup {")"}
    /\ \A j \in (k + 1)..Len(txt) : txt[j] \in WordChars

\* C21: for a text t that is empty or ends with whitespace or ')', and a
\* word w, parse(t followed by w) returns exactly what parse(t) returns: w
\* gives no value, no "not open!" and no numeric error.
C21_TrailingWordDropped ==
    pc = "done" =>
        \A k \in 0..Len(text) :
            TrailingWordAt(text, k) => result = parse(SubSeq(text, 1, k))

\* C21 witness: "(a) -1-" returned the tree of "(a) ", the malformed
\* number -1- still in the buffer.
C21_Witness ==
    /\ pc = "done"
    /\ text = <<"(", "a", ")", " ", "-", "1", "-">>
    /\ word = <<"-", "1", "-">>
    /\ result = Ok(Arr(<<Str(<<"a">>)>>))

(***************************************************************************)
(* The steps of the Builder methods, under Spec.                           *)
(***************************************************************************)

\* the step is a call of the method op
StepOf(op) == Len(calls') = Len(calls) + 1 /\ calls'[Len(calls')].op = op

\* C22: with the open flag false, open() sets it and leaves stack, current
\* and error alone; with the flag true and no error, open() pushes the whole
\* current on top of stack and empties current, flag and error unchanged; in
\* no state does open() change the error.
C22_OpenSteps ==
    [][StepOf("open") =>
          /\ ~builder.open => builder' = [builder EXCEPT !.open = TRUE]
          /\ (builder.open /\ builder.error = None) =>
                builder' = [builder EXCEPT !.stack = Append(@, builder.current),
                                           !.current = <<>>]
          /\ builder'.error = builder.error]_vars

\* C22 witness: a nested open() has just saved the current array [a].
C22_Witness ==
    /\ calls # <<>>
    /\ LastCall.op = "open"
    /\ builder = [stack |-> <<<<Str(<<"a">>)>>>>, current |-> <<>>,
                  error |-> None, open |-> TRUE]

\* C23: close() with a non-empty stack removes the top saved array p and
\* sets current to p with Arr(old current) appended at the end; the rest of
\* the stack, the open flag and the error are unchanged.
C23_CloseNested ==
    [][(StepOf("close") /\ builder.stack # <<>>) =>
          builder' = [builder EXCEPT
                         !.stack = SubSeq(@, 1, Len(@) - 1),
                         !.current = Append(builder.stack[Len(builder.stack)],
                                            Arr(builder.current))]]_vars

\* C23 witness: close() has just appended ( ) after the saved true, with
\* the saved array [a] left on the stack.
C23_Witness ==
    /\ calls # <<>>
    /\ LastCall.op = "close"
    /\ builder.stack = <<<<Str(<<"a">>)>>>>
    /\ builder.current = <<Bool(TRUE), Arr(<<>>)>>

\* C24: with no error latched value() returns Ok(Arr(current)) and leaves
\* current empty, stack, open and error unchanged, so that a second value()
\* returns Ok of an empty array; with an error latched it returns
\* Err(message) and leaves the Builder unchanged.
C24_ValueEffect ==
    [][StepOf("value") =>
          IF builder.error = None
          THEN /\ ret' = Ok(Arr(builder.current))
               /\ builder' = [builder EXCEPT !.current = <<>>]
               /\ value(builder').ret = Ok(Arr(<<>>))
          ELSE /\ ret' = Err(builder.error)
               /\ builder' = builder]_vars

\* C24 witness: a second value() in a row returned an empty root although a
\* value was pushed before the first.
C24_Witness ==
    /\ Len(calls) >= 4
    /\ calls[Len(calls) - 2].op \in PushOps
    /\ calls[Len(calls) - 1].op = "value"
    /\ LastCall.op = "value"
    /\ builder.error = None
    /\ ret = Ok(Arr(<<>>))

(***************************************************************************)
(* Invariants of the Builder, under Spec.                                  *)
(***************************************************************************)

\* C27: in every state reached from new by open(), close(), push and
\* value() calls the stack is empty whenever the open flag is false and
\* whenever an error is latched; hence once an error is latched, stack and
\* current never change again.
C27_StackEmptyWhenClosedOrLatched ==
    /\ []((~builder.open \/ builder.error # None) => builder.stack = <<>>)
    /\ [][builder.error # None =>
             /\ builder'.stack = builder.stack
             /\ builder'.current = builder.current]_vars

\* C27 witness: the error was latched with [a] in current, and two open()
\* calls later stack is still empty and current still [a].
C27_Witness ==
    /\ Len(calls) >= 3
    /\ calls[Len(calls) - 2].op = "close"
    /\ calls[Len(calls) - 1].op = "open"
    /\ LastCall.op = "open"
    /\ builder = [stack |-> <<>>, current |-> <<Str(<<"a">>)>>,
                  error |-> "mismatched open/close", open |-> TRUE]

\* how many calls of the method op were made so far
CountOf(op) == Cardinality({i \in 1..Len(calls) : calls[i].op = op})

\* the levels the Builder holds open: the saved arrays and the root
Level == Len(builder.stack) + (IF builder.open THEN 1 ELSE 0)

\* C28: while no error was latched, the stack length plus 1 if the open flag
\* is set equals the number of open() calls minus the number of close()
\* calls so far; and a close() latches "mismatched open/close" exactly when
\* that difference is 0 before the call.
C28_NestingCount ==
    /\ [](firstError = None => Level = CountOf("open") - CountOf("close"))
    /\ [][(StepOf("close") /\ firstError = None) =>
             (builder'.error = "mismatched open/close"
                 <=> CountOf("open") - CountOf("close") = 0)]_vars

\* C28 witness: two open() and two close() calls, then a third close()
\* latched the error.
C28_Witness ==
    /\ CountOf("open") = 2
    /\ CountOf("close") = 3
    /\ LastCall.op = "close"
    /\ calls[Len(calls) - 1].op = "close"
    /\ builder.error = "mismatched open/close"
    /\ firstError = "mismatched open/close"

(***************************************************************************)
(* The recursion of eval(), under EvalSpec.  The call of eval on the value *)
(* at path p runs inside Len(p) other calls.                               *)
(***************************************************************************)
RECURSIVE LongestFrom(_, _)
LongestFrom(paths, k) ==
    IF k > Len(paths) THEN 0
    ELSE IF Len(paths[k]) > LongestFrom(paths, k + 1)
         THEN Len(paths[k])
         ELSE LongestFrom(paths, k + 1)

\* the largest number of calls of eval active at the same time
MaxActive == 1 + LongestFrom(visited, 1)

\* C25 (as claimed): the largest number of eval calls active at the same
\* time equals the nesting depth of the tree.
C25_ActiveCallsEqualDepth ==
    pc = "evaluated" => MaxActive = TreeDepth(tree)

\* C25 (amended): eval returns, with at most one active call per nesting
\* level of the tree plus the call on a leaf; a value that is no form headed
\* by + * - / is evaluated by one call alone, however deep it is, and such
\* a form by two calls at least.
C25_ActiveCallsBoundedByDepth ==
    pc = "evaluated" =>
        /\ answer.ok \in BOOLEAN
        /\ MaxActive <= TreeDepth(tree) + 1
        /\ ~HeadedBy(tree, {<<"+">>, <<"*">>, <<"-">>, <<"/">>}) => MaxActive = 1
        /\ HeadedBy(tree, {<<"+">>, <<"*">>, <<"-">>, <<"/">>}) => MaxActive >= 2

\* C25 witness: (+ 2 (* 0 (- 0 2)) 2), of depth 3, was evaluated with 4
\* calls active at the deepest point.
C25_Witness ==
    /\ pc = "evaluated"
    /\ tree = Arr(<<Str(<<"+">>), Number(2),
                   Arr(<<Str(<<"*">>), Number(0),
                         Arr(<<Str(<<"-">>), Number(0), Number(2)>>)>>),
                   Number(2)>>)
    /\ TreeDepth(tree) = 3
    /\ MaxActive = 4

(***************************************************************************)
(* The word buffer of parse(), under ParseSpec.                            *)
(***************************************************************************)

\* C26: parse_word is never called with an empty word, so its unwrap()
\* never panics; the buffer never holds whitespace or a parenthesis, and it
\* is empty right after every whitespace or ')' that did not abort the
\* parse.
C26_WordBufferSafe ==
    /\ [](/\ \A i \in 1..Len(word) : word[i] \in WordChars
          /\ pc = "done" => (result.ok \/ result.err # Panic))
    /\ [][(FlushScanned /\ pc' = "scan") => word' = <<>>]_vars

\* C26 witness: in "(a  )" the second space and the ')' met an empty
\* buffer, and the scan goes on with the a pushed once.
C26_Witness ==
    /\ pc = "scan"
    /\ text = <<"(", "a", " ", " ", ")">>
    /\ word = <<>>
    /\ builder = [stack |-> <<>>, current |-> <<Str(<<"a">>)>>,
                  error |-> None, open |-> FALSE]

(***************************************************************************)
(* The strings of a parsed tree, under ParseSpec.                          *)
(***************************************************************************)

\* the values of a tree: the tree itself and every value below it
RECURSIVE Nodes(_)
Nodes(v) ==
    IF v.t = "Arr"
    THEN {v} \cup UNION {Nodes(v.a[i]) : i \in 1..Len(v.a)}
    ELSE {v}

\* what a Str leaf of a parsed tree looks like
ParsedStr(str) ==
    /\ str # <<>>
    /\ \A i \in 1..Len(str) : str[i] \notin Whitespace \cup {"(", ")"}
    /\ str # <<"T">> /\ str # <<"F">>
    /\ str[1] \notin Digits \cup {"-"}

\* C29: in every tree parse returns Ok, every Str leaf is non-empty, holds
\* no whitespace and no parenthesis, is neither "T" nor "F" and does not
\* start with a digit or '-'; hence no parsed tree holds Str("-") and none
\* of its values is a subtraction form; and a token "-" that is flushed
\* makes parse return Err.
C29_ParsedStrings ==
    /\ []((pc = "done" /\ result.ok) =>
             \A v \in Nodes(result.val) :
                 /\ v.t = "Str" => ParsedStr(v.s)
                 /\ v # Str(<<"-">>)
                 /\ ~HeadedBy(v, {<<"-">>}))
    /\ [][(FlushScanned /\ word = <<"-">>) => (pc' = "done" /\ ~result'.ok)]_vars

\* C29 witness: "(a- -1)" parsed to the string a- and the number -1.
C29_Witness ==
    /\ pc = "done"
    /\ text = <<"(", "a", "-", " ", "-", "1", ")">>
    /\ result = Ok(Arr(<<Str(<<"a", "-">>), Number(0 - 1)>>))

(***************************************************************************)
(* Texts with a missing ')', under ParseSpec.  The words of a text are     *)
(* read off the text itself: a word is flushed by a whitespace or a ')'    *)
(* and is made of the word characters met since the flush before.          *)
(***************************************************************************)
CountChar(txt, ch) == Cardinality({k \in 1..Len(txt) : txt[k] = ch})

MoreOpens(txt) == CountChar(txt, "(") > CountChar(txt, ")")

IsWordChar(ch) == ch \in WordChars

\* the last whitespace or ')' before position k, 0 when there is none
RECURSIVE LastFlushBefore(_, _)
LastFlushBefore(txt, k) ==
    IF k <= 1 THEN 0
    ELSE IF txt[k - 1] \in Whitespace \cup {")"} THEN k - 1
    ELSE LastFlushBefore(txt, k - 1)

\* the word pending when the character at position k is read
Pending(txt, k) ==
    SelectSeq(SubSeq(txt, LastFlushBefore(txt, k) + 1, k - 1), IsWordChar)

\* the character at position k flushes a word
FlushAt(txt, k) ==
    txt[k] \in Whitespace \cup {")"} /\ Pending(txt, k) # <<>>

\* a word is flushed by a whitespace met outside every parenthesis
WordFlushedOutside(txt) ==
    \E k \in 1..Len(txt) :
        FlushAt(txt, k) /\ txt[k] \in Whitespace /\ NestingAt(txt, k) = 0

MalformedNumberFlushed(txt) ==
    \E k \in 1..Len(txt) : FlushAt(txt, k) /\ BadNumber(Pending(txt, k))

\* C30: a text with more '(' than ')', no ')' at depth zero, no word flushed
\* outside the parentheses and no malformed number parses Ok: the end of
\* the input with levels still open latches nothing; and the only
\* structural errors parse returns are "not open!" and "mismatched
\* open/close".
C30_MissingCloseNotReported ==
    pc = "done" =>
        /\ \/ result.ok
           \/ result.err \in {"not open!", "mismatched open/close", "invalid float literal"}
        /\ (/\ MoreOpens(text)
            /\ ~HasUnmatchedClose(text)
            /\ ~WordFlushedOutside(text)
            /\ ~MalformedNumberFlushed(text))
              => result.ok /\ builder.error = None

\* C30 witness: "((a 1 " ended with two levels open and returned the
\* innermost array.
C30_Witness ==
    /\ pc = "done"
    /\ text = <<"(", "(", "a", " ", "1", " ">>
    /\ builder.stack # <<>>
    /\ result = Ok(Arr(<<Str(<<"a">>), Number(1)>>))

=============================================================================
